---- MODULE Spec2Model ----
(***************************************************************************)
(* Caption-generation pipeline of cyop: the Vision-Caption Client          *)
(* (services/openai.ts), the Batch Caption Worker                          *)
(* (services/captionWorker.ts) and the reviewer operations of the captions *)
(* router (routers/captions.ts).                                           *)
(*                                                                         *)
(* Steps follow JavaScript's run-to-completion rule: one action is the     *)
(* code that runs between two suspension points (await) of a request.      *)
(* Database statements are single HTTP queries and execute atomically.     *)
(***************************************************************************)
EXTENDS Integers, Sequences, FiniteSets, TLC

(***************************************************************************)
(* Bounds of the model.                                                    *)
(***************************************************************************)
NumCaptions == 2
NumAssets == 2
MaxTasks == 2
MaxTemplates == 2
MaxClock == 1
MaxLimit == 2
MaxConcurrency == 2
MaxReviewerOps == 1

CaptionIds == 1..NumCaptions
AssetIds == 1..NumAssets
DatasetIds == {1, 2}

\* The requests that may run processPendingCaptions at the same time.
Invocations == {"p1", "p2"}

(***************************************************************************)
(* Values.  A nullable column or an optional field is <<>> (null,          *)
(* undefined) or <<v>>.  Texts that the code trims are sequences of         *)
(* characters; messages are strings.                                       *)
(***************************************************************************)
Null == <<>>
Some(v) == <<v>>
IsNull(x) == x = <<>>
Val(x) == x[1]
OrElse(x, y) == IF IsNull(x) THEN y ELSE x

Now == "now"
SessionEmail == "reviewer@example.com"

CaptionStatus == {"pending", "processing", "completed", "approved", "rejected"}

VARIABLES
    apiKey,       \* env.OPENAI_API_KEY: Null or Some(key)
    mediaAssets,  \* the media_assets table: id -> row
    captions,     \* the captions table: id -> row, for the rows that exist
    fetchCalls,   \* number of requests sent to the vision API
    pc,           \* per invocation: "idle", "pool", "write", "done"
    limit,        \* per invocation: the limit argument
    concurrency,  \* per invocation: the concurrency argument
    pendingCaptions, \* per invocation: the rows the select returned
    jobs,         \* per invocation: the jobs built from the select
    queue,        \* per invocation: generateCaptionsBatch's queue
    workers,      \* per invocation: per spawned worker, Some(job) it awaits or Null once it returned
    results,      \* per invocation: generateCaptionsBatch's results
    settled,      \* per invocation: how each generateCaption call ended, in the order the calls settled
    written,      \* per invocation: results handled by the for loop so far
    succeeded,    \* per invocation: the succeeded counter
    failed,       \* per invocation: the failed counter
    errors,       \* per invocation: the errors list
    ret,          \* per invocation: Null or Some(the ProcessResult returned)
    reviewerOps,  \* number of reviewer requests served so far
    request,      \* the last reviewer request received: procedure, ids, optional argument
    reply,        \* the answer to that request: error code and returned count
    captionSeq,   \* the last id the captions table handed out
    trig,         \* per triggerCaptioning call: its position, input, locals and answer
    promptTemplates, \* the prompt_templates table: id -> row
    promptSeq,    \* the last id the prompt_templates table handed out
    promptCalls,  \* per prompts request: its position and input
    tasks,        \* the automation_tasks table: id -> row
    clock,        \* Date.now(), in milliseconds
    uploads,      \* per requestUpload call: its position, input and storage key
    exported,     \* Null or Some(the rows the last export emitted)
    webhook,      \* what the AUTOMATION_WEBHOOK_URL endpoint does with a delivery
    storageEnv,   \* process.env: the S3_* settings
    cachedConfig, \* storage.ts cachedConfig: Null or Some(config)
    storageReply  \* the outcome of the last getStorageConfig call

poolVars == <<pc, limit, concurrency, pendingCaptions, jobs, queue, workers, results,
              settled, written, succeeded, failed, errors, ret>>
reviewVars == <<reviewerOps, request, reply>>
vars == <<apiKey, mediaAssets, captions, fetchCalls, pc, limit, concurrency,
          pendingCaptions, jobs, queue, workers, results, settled, written, succeeded,
          failed, errors, ret, reviewerOps, request, reply, captionSeq, trig,
          promptTemplates, promptSeq, promptCalls, tasks, clock, uploads, exported,
          webhook, storageEnv, cachedConfig, storageReply>>

\* The webhook endpoint and the storage configuration.
sysVars == <<webhook, storageEnv, cachedConfig, storageReply>>

\* What the caption pool and the reviewer procedures never touch.
otherVars == <<captionSeq, trig, promptTemplates, promptSeq, promptCalls, tasks, clock,
               uploads, exported>>

(***************************************************************************)
(* services/openai.ts                                                      *)
(***************************************************************************)

\* String.prototype.trim on a sequence of characters.
IsSpace(ch) == ch = " "

RECURSIVE TrimStart(_)
TrimStart(s) ==
    IF s # <<>> /\ IsSpace(Head(s)) THEN TrimStart(Tail(s)) ELSE s

RECURSIVE TrimEnd(_)
TrimEnd(s) ==
    IF s # <<>> /\ IsSpace(s[Len(s)]) THEN TrimEnd(SubSeq(s, 1, Len(s) - 1)) ELSE s

Trim(s) == TrimEnd(TrimStart(s))

\* What the vision API can answer to one request.  kind "throw": fetch (or
\* the body parser) rejects with an Error carrying `message`.
Responses ==
    { [kind |-> "http", ok |-> TRUE,  content |-> Some(<<"a", " ">>), finish |-> "stop",
       tokens |-> Some(12), message |-> ""],
      [kind |-> "http", ok |-> TRUE,  content |-> Some(<<" ">>), finish |-> "length",
       tokens |-> Null, message |-> ""],
      [kind |-> "http", ok |-> TRUE,  content |-> Some(<<>>), finish |-> "stop",
       tokens |-> Some(12), message |-> ""],
      [kind |-> "http", ok |-> FALSE, content |-> Null, finish |-> "stop",
       tokens |-> Null, message |-> ""],
      [kind |-> "throw", ok |-> FALSE, content |-> Null, finish |-> "stop",
       tokens |-> Null, message |-> "fetch failed"],
      [kind |-> "throw", ok |-> FALSE, content |-> Null, finish |-> "stop",
       tokens |-> Null, message |-> ""] }

Threw(msg) == [threw |-> TRUE, message |-> msg, caption |-> <<>>, model |-> "",
               tokensUsed |-> 0, confidence |-> 0]

\* getApiKey: throws when the key is missing.
getApiKey(key) ==
    IF IsNull(key) \/ key = Some("")
    THEN Threw("OPENAI_API_KEY is not configured")
    ELSE [Threw("") EXCEPT !.threw = FALSE]

\* generateCaption, from the response on: the outcome of the call for a
\* given key and response.
generateCaption(key, resp) ==
    IF getApiKey(key).threw THEN getApiKey(key)
    ELSE IF resp.kind = "throw" THEN Threw(resp.message)
    ELSE IF ~resp.ok THEN Threw("OpenAI API error: 500 - upstream")
    ELSE IF IsNull(resp.content) \/ Val(resp.content) = <<>>
         THEN Threw("OpenAI returned empty response")
    ELSE [threw      |-> FALSE,
          message    |-> "",
          caption    |-> Trim(Val(resp.content)),
          model      |-> "gpt-4o",
          tokensUsed |-> IF IsNull(resp.tokens) THEN 0 ELSE Val(resp.tokens),
          confidence |-> IF resp.finish = "stop" THEN 90 ELSE 70]

\* One entry of generateCaptionsBatch's results: the try branch or the catch
\* branch of the worker, by the outcome of the job's generateCaption call.
BatchResult(job, out) ==
    IF out.threw
    THEN [captionId |-> job.captionId, success |-> FALSE, caption |-> Null,
          model |-> Null, tokensUsed |-> Null, confidence |-> Null,
          error |-> Some(out.message)]
    ELSE [captionId |-> job.captionId, success |-> TRUE, caption |-> Some(out.caption),
          model |-> Some(out.model), tokensUsed |-> Some(out.tokensUsed),
          confidence |-> Some(out.confidence), error |-> Null]

\* Variant: the worker takes the job at the end of the queue (pop).
WorkerLoopPopsLast(q) ==
    IF Len(q) > 0
    THEN [holds |-> Some(q[Len(q)]), queue |-> SubSeq(q, 1, Len(q) - 1)]
    ELSE [holds |-> Null, queue |-> q]

\* The head of the worker's while loop: with a job in the queue the worker
\* shifts it and awaits its generateCaption call, otherwise it returns.
WorkerLoop(q) ==
    IF Len(q) > 0
    THEN [holds |-> Some(Head(q)), queue |-> Tail(q)]
    ELSE [holds |-> Null, queue |-> q]

\* Variant: every worker reads the head of the queue before any of them
\* shifts it.
StartWorkersSameHead(n, q) ==
    [workers |-> [w \in 1..n |-> IF Len(q) > 0 THEN Some(Head(q)) ELSE Null],
     queue |-> IF Len(q) > 0 THEN Tail(q) ELSE q]

\* Array.from({ length: n }, () => worker()): the workers start one after
\* the other, each running to its first await.
RECURSIVE StartWorkers(_, _)
StartWorkers(n, q) ==
    IF n = 0 THEN [workers |-> <<>>, queue |-> q]
    ELSE LET prev == StartWorkers(n - 1, q)
             w    == WorkerLoop(prev.queue)
         IN  [workers |-> Append(prev.workers, w.holds), queue |-> w.queue]

\* Variant: one worker too many is started.
PoolSizeOffByOne(conc) == conc + 1

\* The number of workers generateCaptionsBatch starts.
PoolSize(conc) == conc

\* A generateCaption call sends a request only when getApiKey returned.
Fetches(key, holds) ==
    IF ~IsNull(holds) /\ ~getApiKey(key).threw THEN 1 ELSE 0

RECURSIVE SumFetches(_, _)
SumFetches(key, ws) ==
    IF ws = <<>> THEN 0
    ELSE Fetches(key, Head(ws)) + SumFetches(key, Tail(ws))

\* Variant: the pool resolves with the first worker that returns.
AnyReturned(ws) == \E w \in DOMAIN ws : IsNull(ws[w])

\* Promise.all(workers) resolves once every worker has returned.
AllReturned(ws) == \A w \in DOMAIN ws : IsNull(ws[w])

(***************************************************************************)
(* services/captionWorker.ts                                               *)
(***************************************************************************)

\* The rows the select can return: captions in `processing` whose media
\* asset exists and has a public URL.
Selectable(caps, assets) ==
    { c \in DOMAIN caps :
        /\ caps[c].status = "processing"
        /\ caps[c].mediaAssetId \in DOMAIN assets
        /\ ~IsNull(assets[caps[c].mediaAssetId].publicUrl) }

Min(a, b) == IF a < b THEN a ELSE b

\* LIMIT without ORDER BY: any min(limit, k) of the k matching rows, in any
\* order.
Selections(caps, assets, lim) ==
    LET S == Selectable(caps, assets)
        n == Min(lim, Cardinality(S))
    IN  { s \in [1..n -> S] : \A a, b \in 1..n : a # b => s[a] # s[b] }

\* The temperature column of the select's left join: null when the caption
\* has no prompt template, or none with that id.
JoinedTemperature(cap, templates) ==
    IF ~IsNull(cap.promptTemplateId) /\ Val(cap.promptTemplateId) \in DOMAIN templates
    THEN Some(templates[Val(cap.promptTemplateId)].temperature)
    ELSE Null

\* JavaScript `x || d` on a nullable number: 0 is falsy.
OrNumber(x, d) == IF IsNull(x) \/ Val(x) = 0 THEN d ELSE Val(x)

\* n / 100, as a fraction.
Hundredths(n) == [num |-> n, den |-> 100]

\* (c.temperature || 70) / 100
JobTemperature(joined) == Hundredths(OrNumber(joined, 70))

\* generateCaption's request.temperature ?? 0.7: what the request body holds.
RequestTemperature(job) ==
    IF "temperature" \in DOMAIN job THEN job.temperature ELSE Hundredths(70)

\* pendingCaptions.filter(imageUrl !== null).map(...)
BuildJobs(rows, caps, assets, templates) ==
    LET kept == SelectSeq(rows,
                    LAMBDA c : ~IsNull(assets[caps[c].mediaAssetId].publicUrl))
    IN  [k \in 1..Len(kept) |->
            [captionId |-> kept[k],
             temperature |-> JobTemperature(JoinedTemperature(caps[kept[k]], templates))]]

\* JavaScript truthiness of an optional text / an optional message.
TruthyText(x) == ~IsNull(x) /\ Val(x) # <<>>
TruthyMsg(x) == ~IsNull(x) /\ Val(x) # ""

\* The branch of the for loop a result takes.
IsSuccess(r) == r.success /\ TruthyText(r.caption)

\* The update of the for loop, on the row it finds.
CompletedRow(row, r) ==
    [row EXCEPT !.aiCaption = r.caption,
                !.finalCaption = r.caption,
                !.status = "completed",
                !.model = r.model,
                !.confidence = r.confidence,
                !.tokensUsed = r.tokensUsed,
                !.generatedAt = Some(Now),
                !.updatedAt = Some(Now)]

\* Variant: the rejection reason without its fallback.
RejectedRowNoFallback(row, r) ==
    [row EXCEPT !.status = "rejected",
                !.rejectionReason = IF IsNull(r.error) THEN Some("") ELSE r.error,
                !.updatedAt = Some(Now)]

RejectedRow(row, r) ==
    [row EXCEPT !.status = "rejected",
                !.rejectionReason =
                    IF TruthyMsg(r.error) THEN r.error
                    ELSE Some("Caption generation failed"),
                !.updatedAt = Some(Now)]

\* Variant: only successful results are written.
WorkerUpdateSuccessOnly(caps, r) ==
    IF r.captionId \in DOMAIN caps /\ IsSuccess(r)
    THEN [caps EXCEPT ![r.captionId] = CompletedRow(@, r)]
    ELSE caps

\* UPDATE captions SET ... WHERE id = r.captionId
WorkerUpdate(caps, r) ==
    IF r.captionId \in DOMAIN caps
    THEN [caps EXCEPT ![r.captionId] =
            IF IsSuccess(r) THEN CompletedRow(@, r) ELSE RejectedRow(@, r)]
    ELSE caps

ErrorEntry(r) ==
    [captionId |-> r.captionId,
     error |-> IF TruthyMsg(r.error) THEN Val(r.error) ELSE "Unknown error"]

\* Variant: only a result flagged as failed counts as a failure.
TallyByFlag(r, s, f, errs) ==
    IF IsSuccess(r)
    THEN [succeeded |-> s + 1, failed |-> f, errors |-> errs]
    ELSE IF r.success
    THEN [succeeded |-> s, failed |-> f, errors |-> Append(errs, ErrorEntry(r))]
    ELSE [succeeded |-> s, failed |-> f + 1, errors |-> Append(errs, ErrorEntry(r))]

\* The counters and the errors list after one iteration of the for loop.
Tally(r, s, f, errs) ==
    IF IsSuccess(r)
    THEN [succeeded |-> s + 1, failed |-> f, errors |-> errs]
    ELSE [succeeded |-> s, failed |-> f + 1, errors |-> Append(errs, ErrorEntry(r))]

ProcessResult(n, s, f, errs) ==
    [processed |-> n, succeeded |-> s, failed |-> f, errors |-> errs]

(***************************************************************************)
(* Rows                                                                    *)
(***************************************************************************)

\* The row triggerCaptioning inserts for an asset.
ProcessingRow(asset) ==
    [mediaAssetId |-> asset, promptTemplateId |-> Null, aiCaption |-> Null,
     manualCaption |-> Null, finalCaption |-> Null, status |-> "processing",
     model |-> Null, confidence |-> Null, tokensUsed |-> Null,
     rejectionReason |-> Null, approvedBy |-> Null, approvedAt |-> Null,
     generatedAt |-> Null, updatedAt |-> Some(Now)]

\* The row captions.create inserts when no manual caption is given.
PendingRow(asset) == [ProcessingRow(asset) EXCEPT !.status = "pending"]

\* Before any reviewer request.
NoRequest == [op |-> "none", ids |-> {}, arg |-> Null]
NoReply == [error |-> Null, count |-> Null]

(***************************************************************************)
(* services/storage.ts: storage keys.  File names are sequences of         *)
(* characters over a small alphabet: a lower-case and an upper-case        *)
(* letter, a digit, the dot, the dash, and two characters outside          *)
(* [a-z0-9.-].                                                             *)
(***************************************************************************)
NameSliceLength == 120

\* String.prototype.toLowerCase, character by character.
ToLowerCase(s) == [k \in DOMAIN s |-> IF s[k] = "A" THEN "a" ELSE s[k]]

\* The character class [a-z0-9.-].
IsKeyChar(ch) == ch \in {"a", "1", ".", "-"}

\* replace(/[^a-z0-9.-]+/g, "-"): each maximal run of other characters
\* becomes one dash.
RECURSIVE ReplaceRuns(_, _)
ReplaceRuns(s, inRun) ==
    IF s = <<>> THEN <<>>
    ELSE IF IsKeyChar(Head(s)) THEN <<Head(s)>> \o ReplaceRuns(Tail(s), FALSE)
    ELSE IF inRun THEN ReplaceRuns(Tail(s), TRUE)
    ELSE <<"-">> \o ReplaceRuns(Tail(s), TRUE)

\* replace(/^-+|-+$/g, ""): the dashes at both ends are removed.
RECURSIVE StripLeadingDashes(_)
StripLeadingDashes(s) ==
    IF s # <<>> /\ Head(s) = "-" THEN StripLeadingDashes(Tail(s)) ELSE s

RECURSIVE StripTrailingDashes(_)
StripTrailingDashes(s) ==
    IF s # <<>> /\ s[Len(s)] = "-"
    THEN StripTrailingDashes(SubSeq(s, 1, Len(s) - 1))
    ELSE s

\* slice(0, n)
Slice(s, n) == SubSeq(s, 1, IF Len(s) < n THEN Len(s) ELSE n)

NormalizedName(originalName) ==
    Slice(StripTrailingDashes(StripLeadingDashes(
              ReplaceRuns(ToLowerCase(originalName), FALSE))), NameSliceLength)

\* Variant: the key carries no timestamp.
buildStorageKeyNoTimestamp(datasetId, originalName, now) ==
    LET normalizedName == NormalizedName(originalName)
    IN  <<"datasets/", ToString(datasetId), "/">>
            \o (IF normalizedName = <<>> THEN <<"asset">> ELSE normalizedName)

\* `datasets/${datasetId}/${timestamp}-${normalizedName || "asset"}`, with
\* `now` the value Date.now() returns.
buildStorageKey(datasetId, originalName, now) ==
    LET normalizedName == NormalizedName(originalName)
    IN  <<"datasets/", ToString(datasetId), "/", ToString(now), "-">>
            \o (IF normalizedName = <<>> THEN <<"asset">> ELSE normalizedName)

\* `${endpoint}/${bucket}/${key}`
buildPublicUrl(key) == <<"endpoint/bucket/">> \o key

(***************************************************************************)
(* Rows of the media_assets table.                                         *)
(***************************************************************************)
MediaStatus == {"pending_upload", "uploaded", "failed"}

\* The row requestUpload inserts.  keyedAt is not a column: it records the
\* value of Date.now() when the storage key was built.
NewAssetRow(datasetId, fileName, size, storageKey, keyedAt) ==
    [datasetId |-> datasetId, originalName |-> fileName, size |-> size,
     storageKey |-> storageKey, publicUrl |-> Some(buildPublicUrl(storageKey)),
     keyedAt |-> keyedAt,
     width |-> Null, height |-> Null, checksum |-> Null,
     status |-> "pending_upload", uploadedAt |-> Null, updatedAt |-> Some(Now)]

\* Variant: the update writes every column of the input, omitted or not.
FinalizedRowOverwrites(row, in) ==
    [row EXCEPT !.status = in.status,
                !.uploadedAt = Some(Now),
                !.updatedAt = Some(Now),
                !.size = IF IsNull(in.size) THEN 0 ELSE Val(in.size),
                !.width = in.width,
                !.height = in.height,
                !.checksum = in.checksum]

\* The row after finalizeUpload's update: status and the two dates always,
\* the other columns when the input has them.
FinalizedRow(row, in) ==
    [row EXCEPT !.status = in.status,
                !.uploadedAt = Some(Now),
                !.updatedAt = Some(Now),
                !.size = IF IsNull(in.size) THEN @ ELSE Val(in.size),
                !.width = OrElse(in.width, @),
                !.height = OrElse(in.height, @),
                !.checksum = OrElse(in.checksum, @)]

\* finalizeUpload's input with every optional field omitted.
FinalizeDefaults ==
    [status |-> "uploaded", size |-> Null, width |-> Null, height |-> Null,
     checksum |-> Null]

\* Asset a, of the given dataset, whose upload was requested a milliseconds
\* before the clock's origin and finalized.
UploadedAsset(a, datasetId) ==
    FinalizedRow(NewAssetRow(datasetId, <<"a">>, 0,
                             buildStorageKey(datasetId, <<"a">>, 0 - a), 0 - a),
                 FinalizeDefaults)

(***************************************************************************)
(* Initial values of each area's request state.                            *)
(***************************************************************************)
PoolInit ==
    /\ fetchCalls = 0
    /\ pc = [i \in Invocations |-> "idle"]
    /\ limit = [i \in Invocations |-> 0]
    /\ concurrency = [i \in Invocations |-> 0]
    /\ pendingCaptions = [i \in Invocations |-> <<>>]
    /\ jobs = [i \in Invocations |-> <<>>]
    /\ queue = [i \in Invocations |-> <<>>]
    /\ workers = [i \in Invocations |-> <<>>]
    /\ results = [i \in Invocations |-> <<>>]
    /\ settled = [i \in Invocations |-> <<>>]
    /\ written = [i \in Invocations |-> 0]
    /\ succeeded = [i \in Invocations |-> 0]
    /\ failed = [i \in Invocations |-> 0]
    /\ errors = [i \in Invocations |-> <<>>]
    /\ ret = [i \in Invocations |-> Null]

ReviewInit ==
    /\ reviewerOps = 0
    /\ request = NoRequest
    /\ reply = NoReply

\* The requests that may run triggerCaptioning.
Triggers == {"t1", "t2"}

IdleTrigger ==
    [pc |-> "idle", input |-> [datasetId |-> 0, promptTemplateId |-> Null,
                               mediaAssetIds |-> {}],
     assets |-> {}, templateId |-> Null, inserted |-> {}, reply |-> Null]

TriggerInit == trig = [t \in Triggers |-> IdleTrigger]

\* A row of prompt_templates: the columns the pipeline reads.
TemplateRow(isDefault, temperature) ==
    [isDefault |-> isDefault, temperature |-> temperature]

\* The requests that may run a prompts procedure.
PromptCallers == {"a1", "a2"}

\* defaultsBefore: the templates that were default when a call that clears
\* the defaults began.
IdlePromptCall ==
    [pc |-> "idle", op |-> "none", id |-> 0, isDefault |-> Null, error |-> Null,
     defaultsBefore |-> {}]

PromptInit ==
    /\ promptSeq = Len(promptTemplates)
    /\ promptCalls = [a \in PromptCallers |-> IdlePromptCall]

\* What the webhook endpoint does with a delivery: there is none (no
\* AUTOMATION_WEBHOOK_URL), it answers, the fetch rejects, or no answer ever
\* comes.
WebhookModes == {"unset", "responds", "throws", "silent"}

\* process.env without any S3_* setting.
NoSettings ==
    [accessKeyId |-> Null, secretAccessKey |-> Null, bucket |-> Null, region |-> Null,
     endpoint |-> Null, forcePathStyle |-> Null]

\* Before any getStorageConfig call.
NoStorageReply == [called |-> FALSE, threw |-> FALSE, config |-> Null]

StorageInit ==
    /\ storageEnv = NoSettings
    /\ cachedConfig = Null
    /\ storageReply = NoStorageReply

SysInit ==
    /\ webhook = "responds"
    /\ StorageInit

\* The S3_* settings process.env can hold: each one missing, empty or set;
\* the endpoint with or without a trailing slash.
EnvStates ==
    [accessKeyId : {Null, Some(<<"id">>)},
     secretAccessKey : {Null, Some(<<>>), Some(<<"secret">>)},
     bucket : {Null, Some(<<"bucket">>)},
     region : {Null, Some(<<"region">>)},
     endpoint : {Null, Some(<<"https://host">>), Some(<<"https://host", "/">>)},
     forcePathStyle : {Null, Some(<<"true">>)}]

\* S3_ENDPOINT || (region ? `https://s3.${region}.amazonaws.com` : undefined)
EndpointSetting(e) ==
    IF TruthyText(e.endpoint) THEN e.endpoint
    ELSE IF TruthyText(e.region)
         THEN Some(<<"https://s3.">> \o Val(e.region) \o <<".amazonaws.com">>)
    ELSE Null

\* replace(/\/$/, "")
StripTrailingSlash(s) ==
    IF s # <<>> /\ s[Len(s)] = "/" THEN SubSeq(s, 1, Len(s) - 1) ELSE s

\* getStorageConfig past its cache check: Null when it throws because a
\* setting is missing, otherwise Some(the configuration it builds).
ReadStorageConfig(e) ==
    IF /\ TruthyText(e.accessKeyId)
       /\ TruthyText(e.secretAccessKey)
       /\ TruthyText(e.bucket)
       /\ TruthyText(e.region)
       /\ TruthyText(EndpointSetting(e))
    THEN Some([accessKeyId |-> Val(e.accessKeyId),
               secretAccessKey |-> Val(e.secretAccessKey),
               bucket |-> Val(e.bucket),
               region |-> Val(e.region),
               endpoint |-> StripTrailingSlash(Val(EndpointSetting(e))),
               forcePathStyle |-> e.forcePathStyle = Some(<<"true">>)])
    ELSE Null

\* Variant: the call never looks at its cache.
getStorageConfigRereads(cache, e) ==
    [threw |-> IsNull(ReadStorageConfig(e)), config |-> ReadStorageConfig(e),
     cache |-> ReadStorageConfig(e)]

\* getStorageConfig: the outcome of a call and the cache it leaves.
getStorageConfig(cache, e) ==
    IF ~IsNull(cache) THEN [threw |-> FALSE, config |-> cache, cache |-> cache]
    ELSE IF IsNull(ReadStorageConfig(e))
         THEN [threw |-> TRUE, config |-> Null, cache |-> cache]
    ELSE [threw |-> FALSE, config |-> ReadStorageConfig(e),
          cache |-> ReadStorageConfig(e)]

\* The requests that may run requestUpload.
Uploaders == {"u1"}

IdleUpload ==
    [pc |-> "idle", datasetId |-> 0, fileName |-> <<>>, storageKey |-> <<>>,
     keyedAt |-> 0, error |-> Null]

UploadInit == uploads = [u \in Uploaders |-> IdleUpload]

(***************************************************************************)
(* Initial state: one uploaded media asset per caption id, each with one   *)
(* caption row, queued by triggerCaptioning or created by hand; no prompt  *)
(* template and no task; no request is running.                            *)
(***************************************************************************)
Init ==
    /\ apiKey \in {Null, Some("sk")}
    /\ mediaAssets = [a \in CaptionIds |-> UploadedAsset(a, 1)]
    /\ captions \in { [c \in CaptionIds |->
                          IF c \in queued THEN ProcessingRow(c) ELSE PendingRow(c)] :
                      queued \in SUBSET CaptionIds }
    /\ captionSeq = NumCaptions
    /\ PoolInit
    /\ ReviewInit
    /\ TriggerInit
    /\ promptTemplates = <<>>
    /\ PromptInit
    /\ tasks = <<>>
    /\ clock = 0
    /\ UploadInit
    /\ exported = Null
    /\ SysInit

(***************************************************************************)
(* processPendingCaptions, one action per resumption.                      *)
(***************************************************************************)

\* Variant: a job that threw ends its worker.
NextIterationStopsOnThrow(out, q) ==
    IF out.threw THEN [holds |-> Null, queue |-> q] ELSE WorkerLoop(q)

\* The worker's continuation once its job's result is pushed: back to the
\* head of the while loop.
NextIteration(out, q) == WorkerLoop(q)

\* The call up to `await Promise.all(workers)`: the select, the early
\* return, the jobs, and the start of the pool.
Select(i, lim, conc, rows) ==
    /\ pc[i] = "idle"
    /\ rows \in Selections(captions, mediaAssets, lim)
    /\ limit' = [limit EXCEPT ![i] = lim]
    /\ concurrency' = [concurrency EXCEPT ![i] = conc]
    /\ pendingCaptions' = [pendingCaptions EXCEPT ![i] = rows]
    /\ IF Len(rows) = 0
       THEN /\ pc' = [pc EXCEPT ![i] = "done"]
            /\ ret' = [ret EXCEPT ![i] = Some(ProcessResult(0, 0, 0, <<>>))]
            /\ UNCHANGED <<jobs, queue, workers, fetchCalls>>
       ELSE LET js      == BuildJobs(rows, captions, mediaAssets, promptTemplates)
                started == StartWorkers(PoolSize(conc), js)
            IN  /\ jobs' = [jobs EXCEPT ![i] = js]
                /\ queue' = [queue EXCEPT ![i] = started.queue]
                /\ workers' = [workers EXCEPT ![i] = started.workers]
                /\ fetchCalls' = fetchCalls + SumFetches(apiKey, started.workers)
                /\ pc' = [pc EXCEPT ![i] =
                            IF AllReturned(started.workers) THEN "write" ELSE "pool"]
                /\ ret' = ret
    /\ UNCHANGED <<apiKey, mediaAssets, captions, results, settled, written,
                   succeeded, failed, errors, reviewerOps, request, reply, otherVars,
                   sysVars>>

\* Worker w of invocation i resumes from `await generateCaption(...)`: the
\* call returned or threw; the worker pushes the result and loops.
WorkerResume(i, w, resp) ==
    /\ pc[i] = "pool"
    /\ w \in DOMAIN workers[i]
    /\ ~IsNull(workers[i][w])
    /\ LET job  == Val(workers[i][w])
           out  == generateCaption(apiKey, resp)
           loop == NextIteration(out, queue[i])
           ws   == [workers[i] EXCEPT ![w] = loop.holds]
       IN  /\ results' = [results EXCEPT ![i] = Append(@, BatchResult(job, out))]
           /\ settled' = [settled EXCEPT ![i] =
                            Append(@, [captionId |-> job.captionId, out |-> out])]
           /\ queue' = [queue EXCEPT ![i] = loop.queue]
           /\ workers' = [workers EXCEPT ![i] = ws]
           /\ fetchCalls' = fetchCalls + Fetches(apiKey, loop.holds)
           /\ pc' = [pc EXCEPT ![i] = IF AllReturned(ws) THEN "write" ELSE "pool"]
    /\ UNCHANGED <<apiKey, mediaAssets, captions, limit, concurrency, pendingCaptions,
                   jobs, written, succeeded, failed, errors, ret, reviewerOps,
                   request, reply, otherVars, sysVars>>

\* One iteration of the for loop over the results: the update, the
\* counters, and after the last result the return.
WriteResult(i) ==
    /\ pc[i] = "write"
    /\ written[i] < Len(results[i])
    /\ LET k    == written[i] + 1
           r    == results[i][k]
           t    == Tally(r, succeeded[i], failed[i], errors[i])
           s    == t.succeeded
           f    == t.failed
           errs == t.errors
       IN  /\ captions' = WorkerUpdate(captions, r)
           /\ written' = [written EXCEPT ![i] = k]
           /\ succeeded' = [succeeded EXCEPT ![i] = s]
           /\ failed' = [failed EXCEPT ![i] = f]
           /\ errors' = [errors EXCEPT ![i] = errs]
           /\ IF k = Len(results[i])
              THEN /\ pc' = [pc EXCEPT ![i] = "done"]
                   /\ ret' = [ret EXCEPT ![i] =
                                Some(ProcessResult(Len(results[i]), s, f, errs))]
              ELSE UNCHANGED <<pc, ret>>
    /\ UNCHANGED <<apiKey, mediaAssets, fetchCalls, limit, concurrency,
                   pendingCaptions, jobs, queue, workers, results, settled,
                   reviewerOps, request, reply, otherVars, sysVars>>

(***************************************************************************)
(* Reviewer operations of the captions router.  set() skips a column whose *)
(* value is undefined.                                                     *)
(***************************************************************************)
ReviewIds == 1..(NumCaptions + 1)

\* Variant: the approvedBy input is not used.
ApprovedRowSessionOnly(row, by) ==
    [row EXCEPT !.status = "approved",
                !.approvedAt = Some(Now),
                !.approvedBy = OrElse(Some(SessionEmail), Some("unknown")),
                !.updatedAt = Some(Now)]

ApprovedRow(row, by) ==
    [row EXCEPT !.status = "approved",
                !.approvedAt = Some(Now),
                !.approvedBy = OrElse(by, OrElse(Some(SessionEmail), Some("unknown"))),
                !.updatedAt = Some(Now)]

ReviewerRejectedRow(row, reason) ==
    [row EXCEPT !.status = "rejected",
                !.rejectionReason = OrElse(reason, @),
                !.updatedAt = Some(Now)]

UpdatedRow(row, in) ==
    [row EXCEPT !.manualCaption = OrElse(in.manualCaption, @),
                !.finalCaption = OrElse(in.finalCaption, @),
                !.status = IF IsNull(in.status) THEN @ ELSE Val(in.status),
                !.approvedAt = IF in.status = Some("approved") THEN Some(Now) ELSE @,
                !.rejectionReason = OrElse(in.rejectionReason, @),
                !.updatedAt = Some(Now)]

\* Variant: the previous AI caption is kept.
RegeneratedRowKeepsCaption(row, templateId) ==
    [row EXCEPT !.status = "processing",
                !.promptTemplateId = OrElse(templateId, @),
                !.confidence = Null,
                !.tokensUsed = Null,
                !.generatedAt = Null,
                !.updatedAt = Some(Now)]

RegeneratedRow(row, templateId) ==
    [row EXCEPT !.status = "processing",
                !.promptTemplateId = OrElse(templateId, @),
                !.aiCaption = Null,
                !.confidence = Null,
                !.tokensUsed = Null,
                !.generatedAt = Null,
                !.updatedAt = Some(Now)]

UpdateInputs ==
    [manualCaption : {Null, Some(<<"m">>)},
     finalCaption : {Null, Some(<<>>), Some(<<"f", "\"">>)},
     status : {Null} \cup {Some(st) : st \in CaptionStatus},
     rejectionReason : {Null, Some("edited")}]

\* The request a reviewer sends: the procedure, the ids it names and its
\* optional text argument (approvedBy, reason).
Request(op, ids, arg) == [op |-> op, ids |-> ids, arg |-> arg]

\* Variant: a statement that matched no row still answers normally.
SingleReplySilent(id, caps) == [error |-> Null, count |-> Null]

\* The answer of a procedure that changes one row by id: an error when the
\* statement returned no row.
SingleReply(id, caps) ==
    [error |-> IF id \in DOMAIN caps THEN Null ELSE Some("NOT_FOUND"), count |-> Null]

\* result.length of UPDATE ... WHERE id IN ids RETURNING id.
ReturningCount(ids, caps) == Cardinality(ids \cap DOMAIN caps)

\* Each of approve, reject and update is UPDATE ... WHERE id = id: it changes
\* the row when it exists and otherwise answers NOT_FOUND.
Approve(id, by) ==
    /\ reviewerOps < MaxReviewerOps
    /\ captions' = IF id \in DOMAIN captions
                   THEN [captions EXCEPT ![id] = ApprovedRow(@, by)]
                   ELSE captions
    /\ request' = Request("approve", {id}, by)
    /\ reply' = SingleReply(id, captions)
    /\ reviewerOps' = reviewerOps + 1
    /\ UNCHANGED <<apiKey, mediaAssets, fetchCalls, poolVars, otherVars, sysVars>>

Reject(id, reason) ==
    /\ reviewerOps < MaxReviewerOps
    /\ captions' = IF id \in DOMAIN captions
                   THEN [captions EXCEPT ![id] = ReviewerRejectedRow(@, reason)]
                   ELSE captions
    /\ request' = Request("reject", {id}, reason)
    /\ reply' = SingleReply(id, captions)
    /\ reviewerOps' = reviewerOps + 1
    /\ UNCHANGED <<apiKey, mediaAssets, fetchCalls, poolVars, otherVars, sysVars>>

Update(id, in) ==
    /\ reviewerOps < MaxReviewerOps
    /\ captions' = IF id \in DOMAIN captions
                   THEN [captions EXCEPT ![id] = UpdatedRow(@, in)]
                   ELSE captions
    /\ request' = Request("update", {id}, Null)
    /\ reply' = SingleReply(id, captions)
    /\ reviewerOps' = reviewerOps + 1
    /\ UNCHANGED <<apiKey, mediaAssets, fetchCalls, poolVars, otherVars, sysVars>>

\* UPDATE ... WHERE id IN ids; the answer counts the rows returned.
BatchApprove(ids, by) ==
    /\ reviewerOps < MaxReviewerOps
    /\ captions' = [c \in DOMAIN captions |->
                      IF c \in ids THEN ApprovedRow(captions[c], by) ELSE captions[c]]
    /\ request' = Request("batchApprove", ids, by)
    /\ reply' = [error |-> Null, count |-> Some(ReturningCount(ids, captions))]
    /\ reviewerOps' = reviewerOps + 1
    /\ UNCHANGED <<apiKey, mediaAssets, fetchCalls, poolVars, otherVars, sysVars>>

BatchReject(ids, reason) ==
    /\ reviewerOps < MaxReviewerOps
    /\ captions' = [c \in DOMAIN captions |->
                      IF c \in ids THEN ReviewerRejectedRow(captions[c], reason)
                      ELSE captions[c]]
    /\ request' = Request("batchReject", ids, reason)
    /\ reply' = [error |-> Null, count |-> Some(ReturningCount(ids, captions))]
    /\ reviewerOps' = reviewerOps + 1
    /\ UNCHANGED <<apiKey, mediaAssets, fetchCalls, poolVars, otherVars, sysVars>>

\* No prompt template is flagged default here, so without an explicit
\* template the lookup yields undefined.  The answer is input.ids.length.
Regenerate(ids, templateId) ==
    /\ reviewerOps < MaxReviewerOps
    /\ captions' = [c \in DOMAIN captions |->
                      IF c \in ids THEN RegeneratedRow(captions[c], templateId)
                      ELSE captions[c]]
    /\ request' = Request("regenerate", ids, Null)
    /\ reply' = [error |-> Null, count |-> Some(Cardinality(ids))]
    /\ reviewerOps' = reviewerOps + 1
    /\ UNCHANGED <<apiKey, mediaAssets, fetchCalls, poolVars, otherVars, sysVars>>

Delete(id) ==
    /\ reviewerOps < MaxReviewerOps
    /\ captions' = [c \in DOMAIN captions \ {id} |-> captions[c]]
    /\ request' = Request("delete", {id}, Null)
    /\ reply' = SingleReply(id, captions)
    /\ reviewerOps' = reviewerOps + 1
    /\ UNCHANGED <<apiKey, mediaAssets, fetchCalls, poolVars, otherVars, sysVars>>

(***************************************************************************)
(* triggerCaptioning of the captions router, one action per statement: the *)
(* anti-join select, the default-template select, the insert, and the      *)
(* return once publishAutomationEvent has settled.                         *)
(***************************************************************************)

\* Variant: only a caption in `processing` keeps an asset out of the select.
UncaptionedAssetsByStatus(assets, caps, in) ==
    { a \in DOMAIN assets :
        /\ assets[a].datasetId = in.datasetId
        /\ (in.mediaAssetIds # {} => a \in in.mediaAssetIds)
        /\ ~\E c \in DOMAIN caps :
              caps[c].mediaAssetId = a /\ caps[c].status = "processing" }

\* media_assets LEFT JOIN captions WHERE datasetId = ... [AND id IN ...]
\* AND captions.id IS NULL.  An absent and an empty mediaAssetIds are {}.
UncaptionedAssets(assets, caps, in) ==
    { a \in DOMAIN assets :
        /\ assets[a].datasetId = in.datasetId
        /\ (in.mediaAssetIds # {} => a \in in.mediaAssetIds)
        /\ ~\E c \in DOMAIN caps : caps[c].mediaAssetId = a }

\* SELECT id FROM prompt_templates WHERE is_default LIMIT 1: the ids the
\* statement may return, Null when no row is flagged.
DefaultTemplateIds(templates) ==
    IF \E p \in DOMAIN templates : templates[p].isDefault
    THEN { Some(p) : p \in { q \in DOMAIN templates : templates[q].isDefault } }
    ELSE {Null}

\* The rank of asset a among the assets of S, in ascending order.
Rank(a, S) == Cardinality({ b \in S : b <= a })

\* The row inserted for an asset.
TriggeredRow(asset, templateId) ==
    [ProcessingRow(asset) EXCEPT !.promptTemplateId = templateId]

\* INSERT ... VALUES (captionRecords): the rows get the next ids, in the
\* order of the assets.
InsertCaptions(caps, seq, assets, templateId) ==
    [c \in DOMAIN caps \cup ((seq + 1)..(seq + Cardinality(assets))) |->
        IF c \in DOMAIN caps THEN caps[c]
        ELSE TriggeredRow(CHOOSE a \in assets : Rank(a, assets) = c - seq, templateId)]

TriggerSelect(t, in) ==
    /\ trig[t].pc = "idle"
    /\ LET assets == UncaptionedAssets(mediaAssets, captions, in)
       IN  trig' = [trig EXCEPT ![t] =
                [@ EXCEPT !.input = in,
                          !.assets = assets,
                          !.templateId = in.promptTemplateId,
                          !.pc = IF assets = {} THEN "done"
                                 ELSE IF IsNull(in.promptTemplateId) THEN "lookup"
                                 ELSE "insert",
                          !.reply = IF assets = {}
                                    THEN Some([queued |-> 0, captionIds |-> {}])
                                    ELSE Null]]
    /\ UNCHANGED <<apiKey, mediaAssets, captions, fetchCalls, poolVars, reviewVars,
                   captionSeq, promptTemplates, promptSeq, promptCalls, tasks, clock,
                   uploads, exported, sysVars>>

TriggerLookup(t, found) ==
    /\ trig[t].pc = "lookup"
    /\ found \in DefaultTemplateIds(promptTemplates)
    /\ trig' = [trig EXCEPT ![t] = [@ EXCEPT !.templateId = found, !.pc = "insert"]]
    /\ UNCHANGED <<apiKey, mediaAssets, captions, fetchCalls, poolVars, reviewVars,
                   captionSeq, promptTemplates, promptSeq, promptCalls, tasks, clock,
                   uploads, exported, sysVars>>

TriggerInsert(t) ==
    /\ trig[t].pc = "insert"
    /\ LET n == Cardinality(trig[t].assets)
       IN  /\ captions' = InsertCaptions(captions, captionSeq, trig[t].assets,
                                         trig[t].templateId)
           /\ captionSeq' = captionSeq + n
           /\ trig' = [trig EXCEPT ![t] =
                    [@ EXCEPT !.inserted = (captionSeq + 1)..(captionSeq + n),
                              !.pc = "publish"]]
    /\ UNCHANGED <<apiKey, mediaAssets, fetchCalls, poolVars, reviewVars,
                   promptTemplates, promptSeq, promptCalls, tasks, clock, uploads,
                   exported, sysVars>>

\* publishAutomationEvent settles (no endpoint, delivered, or failed and
\* logged) and the procedure returns.
TriggerReturn(t) ==
    /\ trig[t].pc = "publish"
    /\ webhook # "silent"
    /\ trig' = [trig EXCEPT ![t] =
             [@ EXCEPT !.pc = "done",
                       !.reply = Some([queued |-> Cardinality(trig[t].inserted),
                                       captionIds |-> trig[t].inserted])]]
    /\ UNCHANGED <<apiKey, mediaAssets, captions, fetchCalls, poolVars, reviewVars,
                   captionSeq, promptTemplates, promptSeq, promptCalls, tasks, clock,
                   uploads, exported, sysVars>>

(***************************************************************************)
(* export of the captions router.                                          *)
(***************************************************************************)

\* a || b for texts that may be null: a unless it is null or empty.
OrText(a, b) == IF ~IsNull(a) /\ Val(a) # <<>> THEN a ELSE b

\* r.finalCaption || r.manualCaption || r.aiCaption || ""
ExportCaption(r) ==
    Val(OrText(r.finalCaption, OrText(r.manualCaption, OrText(r.aiCaption, Some(<<>>)))))

\* replace(/"/g, '""')
RECURSIVE EscapeQuotes(_)
EscapeQuotes(s) ==
    IF s = <<>> THEN <<>>
    ELSE (IF Head(s) = "\"" THEN <<"\"", "\"">> ELSE <<Head(s)>>) \o EscapeQuotes(Tail(s))

\* The caption text of an exported row in the given format.
EmittedCaption(format, r) ==
    IF format = "csv" THEN EscapeQuotes(ExportCaption(r)) ELSE ExportCaption(r)

\* captions INNER JOIN media_assets with the optional filters.
ExportedIds(caps, assets, in) ==
    { c \in DOMAIN caps :
        /\ caps[c].mediaAssetId \in DOMAIN assets
        /\ (~IsNull(in.datasetId) =>
               assets[caps[c].mediaAssetId].datasetId = Val(in.datasetId))
        /\ (~IsNull(in.statusFilter) => caps[c].status = Val(in.statusFilter)) }

ExportInputs ==
    [datasetId : {Null, Some(1)}, format : {"json", "csv", "txt"},
     statusFilter : {Null, Some("pending")}]

\* The query: the selected rows and, for csv and txt, the caption text
\* emitted for each of them.
Export(in) ==
    /\ LET ids == ExportedIds(captions, mediaAssets, in)
       IN  exported' = Some([format |-> in.format,
                             data |-> [c \in ids |-> captions[c]],
                             texts |-> IF in.format = "json" THEN <<>>
                                       ELSE [c \in ids |->
                                               EmittedCaption(in.format, captions[c])]])
    /\ UNCHANGED <<apiKey, mediaAssets, captions, fetchCalls, poolVars, reviewVars,
                   captionSeq, trig, promptTemplates, promptSeq, promptCalls, tasks,
                   clock, uploads, sysVars>>

(***************************************************************************)
(* routers/tasks.ts                                                        *)
(***************************************************************************)
TaskStatus == {"queued", "running", "paused", "succeeded", "failed", "blocked"}

\* The row tasks.create inserts.
NewTaskRow(in) ==
    [status |-> in.status, progress |-> in.progress, failureReason |-> Null,
     startedAt |-> IF in.status = "running" THEN Some(Now) ELSE Null,
     completedAt |-> IF in.status = "succeeded" \/ in.status = "failed"
                     THEN Some(Now) ELSE Null,
     updatedAt |-> Some(Now)]

\* The row after updateStatus's update; a column whose value is undefined
\* is left as it is.
StatusUpdatedRow(row, in) ==
    [row EXCEPT !.status = in.status,
                !.progress = IF ~IsNull(in.progress) THEN Val(in.progress)
                             ELSE IF in.status = "succeeded" THEN 100 ELSE 0,
                !.failureReason = OrElse(in.failureReason, @),
                !.updatedAt = Some(Now),
                !.startedAt = IF in.status = "running" THEN Some(Now) ELSE @,
                !.completedAt =
                    IF in.status = "running" THEN Null
                    ELSE IF in.status = "succeeded" \/ in.status = "failed" THEN Some(Now)
                    ELSE IF in.status = "queued" \/ in.status = "paused" THEN Null
                    ELSE @]

TaskCreateInputs == [status : TaskStatus, progress : {0, 50}]

TaskUpdateInputs ==
    [status : TaskStatus, progress : {Null, Some(50)},
     failureReason : {Null, Some("boom")}]

TaskCreate(in) ==
    /\ Len(tasks) < MaxTasks
    /\ tasks' = Append(tasks, NewTaskRow(in))
    /\ UNCHANGED <<apiKey, mediaAssets, captions, fetchCalls, poolVars, reviewVars,
                   captionSeq, trig, promptTemplates, promptSeq, promptCalls, clock,
                   uploads, exported, sysVars>>

\* UPDATE ... WHERE id = id; without a row the procedure throws.
TaskUpdateStatus(id, in) ==
    /\ tasks' = IF id \in DOMAIN tasks
                THEN [tasks EXCEPT ![id] = StatusUpdatedRow(@, in)]
                ELSE tasks
    /\ UNCHANGED <<apiKey, mediaAssets, captions, fetchCalls, poolVars, reviewVars,
                   captionSeq, trig, promptTemplates, promptSeq, promptCalls, clock,
                   uploads, exported, sysVars>>

(***************************************************************************)
(* routers/prompts.ts, one action per statement.  A call that makes a      *)
(* template the default first clears every default flag and then, in a     *)
(* second statement, inserts or updates its own row.                       *)
(***************************************************************************)
PromptOps == {"create", "update", "setDefault"}

\* The ids of the templates flagged as default.
DefaultsOf(templates) == { p \in DOMAIN templates : templates[p].isDefault }

\* UPDATE prompt_templates SET is_default = false WHERE is_default
ClearDefaults(templates) ==
    [p \in DOMAIN templates |-> [templates[p] EXCEPT !.isDefault = FALSE]]

\* The call clears the defaults before its own statement.
ClearsFirst(op, isDefault) ==
    \/ op = "setDefault"
    \/ op \in {"create", "update"} /\ isDefault = Some(TRUE)

\* The call's own statement: the insert of create (isDefault defaults to
\* false), the update of update (an undefined isDefault is skipped) or of
\* setDefault.
WriteTemplate(templates, op, id, isDefault) ==
    IF op = "create"
    THEN Append(templates, TemplateRow(isDefault = Some(TRUE), 70))
    ELSE IF id \notin DOMAIN templates THEN templates
    ELSE IF op = "setDefault" THEN [templates EXCEPT ![id].isDefault = TRUE]
    ELSE [templates EXCEPT ![id].isDefault = IF IsNull(isDefault) THEN @ ELSE Val(isDefault)]

\* NOT_FOUND when the update returned no row.
WriteError(templates, op, id) ==
    IF op # "create" /\ id \notin DOMAIN templates THEN Some("NOT_FOUND") ELSE Null

\* The first statement of a call: the clear, or directly its own statement.
PromptBegin(a, op, id, isDefault) ==
    /\ promptCalls[a].pc = "idle"
    /\ op = "create" => Len(promptTemplates) < MaxTemplates
    /\ IF ClearsFirst(op, isDefault)
       THEN /\ promptTemplates' = ClearDefaults(promptTemplates)
            /\ promptCalls' = [promptCalls EXCEPT ![a] =
                   [pc |-> "write", op |-> op, id |-> id, isDefault |-> isDefault,
                    error |-> Null,
                    defaultsBefore |-> DefaultsOf(promptTemplates)]]
            /\ UNCHANGED promptSeq
       ELSE /\ promptTemplates' = WriteTemplate(promptTemplates, op, id, isDefault)
            /\ promptSeq' = IF op = "create" THEN promptSeq + 1 ELSE promptSeq
            /\ promptCalls' = [promptCalls EXCEPT ![a] =
                   [pc |-> "idle", op |-> op, id |-> id, isDefault |-> isDefault,
                    error |-> WriteError(promptTemplates, op, id),
                    defaultsBefore |-> {}]]
    /\ UNCHANGED <<apiKey, mediaAssets, captions, fetchCalls, poolVars, reviewVars,
                   captionSeq, trig, tasks, clock, uploads, exported, sysVars>>

\* The second statement of a call that cleared the defaults.
PromptWrite(a) ==
    /\ promptCalls[a].pc = "write"
    /\ promptCalls[a].op = "create" => Len(promptTemplates) < MaxTemplates
    /\ LET call == promptCalls[a]
       IN  /\ promptTemplates' =
                  WriteTemplate(promptTemplates, call.op, call.id, call.isDefault)
           /\ promptSeq' = IF call.op = "create" THEN promptSeq + 1 ELSE promptSeq
           /\ promptCalls' = [promptCalls EXCEPT ![a] =
                  [call EXCEPT !.pc = "idle",
                               !.error = WriteError(promptTemplates, call.op, call.id)]]
    /\ UNCHANGED <<apiKey, mediaAssets, captions, fetchCalls, poolVars, reviewVars,
                   captionSeq, trig, tasks, clock, uploads, exported, sysVars>>

(***************************************************************************)
(* routers/media.ts: the upload session.  requestUpload looks the dataset  *)
(* up, builds the key and inserts the asset; finalizeUpload is one update. *)
(***************************************************************************)
FileNames == { <<"a">>, <<"A">>, <<"_", " ">> }

FinalizeInputs ==
    [status : MediaStatus, size : {Null}, width : {Null}, height : {Null},
     checksum : {Null}]

\* The dataset select returned: NOT_FOUND without a row, otherwise the key
\* is built from the clock and the insert is sent.
UploadLookup(u, datasetId, fileName) ==
    /\ uploads[u].pc = "idle"
    /\ Len(mediaAssets) < NumAssets
    /\ uploads' = [uploads EXCEPT ![u] =
          IF datasetId \in DatasetIds
          THEN [pc |-> "insert", datasetId |-> datasetId, fileName |-> fileName,
                storageKey |-> buildStorageKey(datasetId, fileName, clock),
                keyedAt |-> clock, error |-> Null]
          ELSE [IdleUpload EXCEPT !.error = Some("NOT_FOUND")]]
    /\ UNCHANGED <<apiKey, mediaAssets, captions, fetchCalls, poolVars, reviewVars,
                   captionSeq, trig, promptTemplates, promptSeq, promptCalls, tasks,
                   clock, exported, sysVars>>

UploadInsert(u) ==
    /\ uploads[u].pc = "insert"
    /\ Len(mediaAssets) < NumAssets
    /\ mediaAssets' = Append(mediaAssets,
                             NewAssetRow(uploads[u].datasetId, uploads[u].fileName, 0,
                                         uploads[u].storageKey, uploads[u].keyedAt))
    /\ uploads' = [uploads EXCEPT ![u] = IdleUpload]
    /\ UNCHANGED <<apiKey, captions, fetchCalls, poolVars, reviewVars, captionSeq, trig,
                   promptTemplates, promptSeq, promptCalls, tasks, clock, exported,
                   sysVars>>

\* UPDATE media_assets SET ... WHERE id = assetId; NOT_FOUND without a row.
FinalizeUpload(assetId, in) ==
    /\ mediaAssets' = IF assetId \in DOMAIN mediaAssets
                      THEN [mediaAssets EXCEPT ![assetId] = FinalizedRow(@, in)]
                      ELSE mediaAssets
    /\ reply' = SingleReply(assetId, mediaAssets)
    /\ UNCHANGED <<apiKey, captions, fetchCalls, poolVars, reviewerOps, request,
                   captionSeq, trig, promptTemplates, promptSeq, promptCalls, tasks,
                   clock, uploads, exported, sysVars>>

\* A millisecond passes.
Tick ==
    /\ clock < MaxClock
    /\ clock' = clock + 1
    /\ UNCHANGED <<apiKey, mediaAssets, captions, fetchCalls, poolVars, reviewVars,
                   captionSeq, trig, promptTemplates, promptSeq, promptCalls, tasks,
                   uploads, exported, sysVars>>

\* The processQueue request that follows one that has returned: it starts
\* with nothing of the earlier call.
NewRequest(i) ==
    /\ pc[i] = "done"
    /\ pc' = [pc EXCEPT ![i] = "idle"]
    /\ limit' = [limit EXCEPT ![i] = 0]
    /\ concurrency' = [concurrency EXCEPT ![i] = 0]
    /\ pendingCaptions' = [pendingCaptions EXCEPT ![i] = <<>>]
    /\ jobs' = [jobs EXCEPT ![i] = <<>>]
    /\ queue' = [queue EXCEPT ![i] = <<>>]
    /\ workers' = [workers EXCEPT ![i] = <<>>]
    /\ results' = [results EXCEPT ![i] = <<>>]
    /\ settled' = [settled EXCEPT ![i] = <<>>]
    /\ written' = [written EXCEPT ![i] = 0]
    /\ succeeded' = [succeeded EXCEPT ![i] = 0]
    /\ failed' = [failed EXCEPT ![i] = 0]
    /\ errors' = [errors EXCEPT ![i] = <<>>]
    /\ ret' = [ret EXCEPT ![i] = Null]
    /\ UNCHANGED <<apiKey, mediaAssets, captions, fetchCalls, reviewVars, otherVars,
                   sysVars>>

(***************************************************************************)
(* services/storage.ts: the storage configuration.                         *)
(***************************************************************************)

\* A caller (a presign, a public URL) asks for the storage configuration.
GetStorageConfig ==
    /\ LET r == getStorageConfig(cachedConfig, storageEnv)
       IN  /\ cachedConfig' = r.cache
           /\ storageReply' = [called |-> TRUE, threw |-> r.threw, config |-> r.config]
    /\ UNCHANGED <<apiKey, mediaAssets, captions, fetchCalls, poolVars, reviewVars,
                   otherVars, webhook, storageEnv>>

\* The environment of the process changes.
SetEnv(e) ==
    /\ storageEnv' = e
    /\ UNCHANGED <<apiKey, mediaAssets, captions, fetchCalls, poolVars, reviewVars,
                   otherVars, webhook, cachedConfig, storageReply>>

(***************************************************************************)
(* Specifications                                                          *)
(***************************************************************************)
PoolStep(i) ==
    \/ \E lim \in 1..MaxLimit, conc \in 1..MaxConcurrency :
          \E rows \in Selections(captions, mediaAssets, lim) : Select(i, lim, conc, rows)
    \/ \E w \in 1..(MaxConcurrency + 1), resp \in Responses : WorkerResume(i, w, resp)
    \/ WriteResult(i)

ReviewStep ==
    \/ \E id \in ReviewIds, by \in {Null, Some("lead")} : Approve(id, by)
    \/ \E id \in ReviewIds, reason \in {Null, Some("blurry")} : Reject(id, reason)
    \/ \E id \in ReviewIds, in \in UpdateInputs : Update(id, in)
    \/ \E ids \in SUBSET ReviewIds \ {{}}, by \in {Null, Some("lead")} :
          BatchApprove(ids, by)
    \/ \E ids \in SUBSET ReviewIds \ {{}}, reason \in {Null, Some("blurry")} :
          BatchReject(ids, reason)
    \/ \E ids \in SUBSET ReviewIds \ {{}}, t \in {Null, Some(1)} : Regenerate(ids, t)
    \/ \E id \in ReviewIds : Delete(id)

\* A single processQueue request, nothing else touching the tables.
Next == PoolStep("p1")

Spec == Init /\ [][Next]_vars

\* The same request when every vision call settles and every database
\* statement is answered.
FairSpec ==
    /\ Spec
    /\ WF_vars(\E w \in 1..(MaxConcurrency + 1), resp \in Responses :
                  WorkerResume("p1", w, resp))
    /\ WF_vars(WriteResult("p1"))

\* processQueue requests one after the other, nothing else touching the
\* tables.
NextDrain == PoolStep("p1") \/ NewRequest("p1")

\* The requests keep coming, every vision call settles and every database
\* statement is answered.
SpecDrain ==
    /\ Init
    /\ [][NextDrain]_vars
    /\ WF_vars(\E lim \in 1..MaxLimit, conc \in 1..MaxConcurrency :
                  \E rows \in Selections(captions, mediaAssets, lim) :
                      Select("p1", lim, conc, rows))
    /\ WF_vars(\E w \in 1..(MaxConcurrency + 1), resp \in Responses :
                  WorkerResume("p1", w, resp))
    /\ WF_vars(WriteResult("p1"))
    /\ WF_vars(NewRequest("p1"))

\* Overlapping processQueue requests.
NextOverlap == \E i \in Invocations : PoolStep(i)

SpecOverlap == Init /\ [][NextOverlap]_vars

\* A processQueue request with reviewer requests arriving meanwhile.
NextReview == PoolStep("p1") \/ ReviewStep

SpecReview == Init /\ [][NextReview]_vars

\* update's input that sets the status and nothing else.
StatusOnly(st) ==
    [manualCaption |-> Null, finalCaption |-> Null, status |-> Some(st),
     rejectionReason |-> Null]

\* The row of caption c once the worker has written the result of a vision
\* call that was answered with resp.
WorkedRow(c, resp) ==
    LET r == BatchResult([captionId |-> c], generateCaption(Some("sk"), resp))
    IN  IF IsSuccess(r) THEN CompletedRow(ProcessingRow(c), r)
        ELSE RejectedRow(ProcessingRow(c), r)

\* The captions as processQueue requests have left them: each is queued,
\* created by hand, completed or rejected.
InitEdits ==
    /\ apiKey = Some("sk")
    /\ mediaAssets = [a \in CaptionIds |-> UploadedAsset(a, 1)]
    /\ captions \in [CaptionIds -> UNION { {ProcessingRow(c), PendingRow(c)}
                                            \cup { WorkedRow(c, resp) : resp \in Responses } :
                                            c \in CaptionIds }]
    /\ \A c \in CaptionIds : captions[c].mediaAssetId = c
    /\ captionSeq = NumCaptions
    /\ PoolInit
    /\ ReviewInit
    /\ TriggerInit
    /\ promptTemplates = <<>>
    /\ PromptInit
    /\ tasks = <<>>
    /\ clock = 0
    /\ UploadInit
    /\ exported = Null
    /\ SysInit

\* Reviewer requests while no processQueue request runs; update changes the
\* status only.
NextEdits ==
    \/ \E id \in ReviewIds, by \in {Null, Some("lead")} : Approve(id, by)
    \/ \E id \in ReviewIds, reason \in {Null, Some("blurry")} : Reject(id, reason)
    \/ \E id \in ReviewIds, st \in CaptionStatus : Update(id, StatusOnly(st))
    \/ \E ids \in SUBSET ReviewIds \ {{}}, by \in {Null, Some("lead")} :
          BatchApprove(ids, by)
    \/ \E ids \in SUBSET ReviewIds \ {{}}, reason \in {Null, Some("blurry")} :
          BatchReject(ids, reason)
    \/ \E ids \in SUBSET ReviewIds \ {{}}, t \in {Null, Some(1)} : Regenerate(ids, t)
    \/ \E id \in ReviewIds : Delete(id)

SpecEdits == InitEdits /\ [][NextEdits]_vars

\* Uploaded assets, all in dataset 1 or the last one in dataset 2, some of
\* them captioned already and waiting for review, and at most one prompt
\* template, the default one.
InitTrigger ==
    /\ apiKey = Some("sk")
    /\ \E last \in DatasetIds :
          mediaAssets = [a \in AssetIds |->
                            UploadedAsset(a, IF a = NumAssets THEN last ELSE 1)]
    /\ \E S \in SUBSET AssetIds :
          /\ captions = [c \in 1..Cardinality(S) |->
                            PendingRow(CHOOSE b \in S : Rank(b, S) = c)]
          /\ captionSeq = Cardinality(S)
    /\ PoolInit
    /\ ReviewInit
    /\ TriggerInit
    /\ promptTemplates \in {<<>>, <<TemplateRow(TRUE, 70)>>}
    /\ PromptInit
    /\ tasks = <<>>
    /\ clock = 0
    /\ UploadInit
    /\ exported = Null
    /\ SysInit

TriggerInputs ==
    [datasetId : DatasetIds, promptTemplateId : {Null, Some(1)},
     mediaAssetIds : {{}, {1}, AssetIds}]

TriggerStep(t) ==
    \/ \E in \in TriggerInputs : TriggerSelect(t, in)
    \/ \E found \in DefaultTemplateIds(promptTemplates) : TriggerLookup(t, found)
    \/ TriggerInsert(t)
    \/ TriggerReturn(t)

\* No other triggerCaptioning call is between its select and its return.
Alone(t) == \A u \in Triggers \ {t} : trig[u].pc \in {"idle", "done"}

\* triggerCaptioning calls one after the other, with reviewers moving
\* captions to any status in between; no caption is deleted and no media is
\* added.
NextTrigger ==
    \/ \E t \in Triggers : Alone(t) /\ TriggerStep(t)
    \/ \E id \in ReviewIds, st \in CaptionStatus : Update(id, StatusOnly(st))

SpecTrigger == InitTrigger /\ [][NextTrigger]_vars

\* Exports with reviewers editing caption texts in between.
NextExport ==
    \/ \E id \in ReviewIds, in \in UpdateInputs : Update(id, in)
    \/ \E in \in ExportInputs : Export(in)

SpecExport == Init /\ [][NextExport]_vars

\* The automation tasks, created and moved between statuses.
NextTasks ==
    \/ \E in \in TaskCreateInputs : TaskCreate(in)
    \/ \E id \in 1..(MaxTasks + 1), in \in TaskUpdateInputs : TaskUpdateStatus(id, in)

SpecTasks == Init /\ [][NextTasks]_vars

\* Prompt-template requests of two callers, statement by statement.
NextPrompts ==
    \E a \in PromptCallers :
        \/ \E op \in PromptOps, id \in 1..(MaxTemplates + 1),
              isDefault \in {Null, Some(TRUE), Some(FALSE)} :
              PromptBegin(a, op, id, isDefault)
        \/ PromptWrite(a)

SpecPrompts == Init /\ [][NextPrompts]_vars

\* Prompt-template requests of one caller, one after the other.
NextPromptsAlone ==
    \/ \E op \in PromptOps, id \in 1..(MaxTemplates + 1),
          isDefault \in {Null, Some(TRUE), Some(FALSE)} :
          PromptBegin("a1", op, id, isDefault)
    \/ PromptWrite("a1")

SpecPromptsAlone == Init /\ [][NextPromptsAlone]_vars

\* No asset yet, and so no caption.
InitMedia ==
    /\ apiKey = Some("sk")
    /\ mediaAssets = <<>>
    /\ captions = <<>>
    /\ captionSeq = 0
    /\ PoolInit
    /\ ReviewInit
    /\ TriggerInit
    /\ promptTemplates = <<>>
    /\ PromptInit
    /\ tasks = <<>>
    /\ clock = 0
    /\ UploadInit
    /\ exported = Null
    /\ SysInit

\* Upload sessions while the clock advances.
NextMedia ==
    \/ \E u \in Uploaders, datasetId \in DatasetIds \cup {3}, fileName \in FileNames :
          UploadLookup(u, datasetId, fileName)
    \/ \E u \in Uploaders : UploadInsert(u)
    \/ \E assetId \in 1..(NumAssets + 1), in \in FinalizeInputs :
          FinalizeUpload(assetId, in)
    \/ Tick

SpecMedia == InitMedia /\ [][NextMedia]_vars

\* The tables as triggerCaptioning finds them, and a webhook endpoint of any
\* kind.
InitWebhook ==
    /\ apiKey = Some("sk")
    /\ \E last \in DatasetIds :
          mediaAssets = [a \in AssetIds |->
                            UploadedAsset(a, IF a = NumAssets THEN last ELSE 1)]
    /\ \E S \in SUBSET AssetIds :
          /\ captions = [c \in 1..Cardinality(S) |->
                            PendingRow(CHOOSE b \in S : Rank(b, S) = c)]
          /\ captionSeq = Cardinality(S)
    /\ PoolInit
    /\ ReviewInit
    /\ TriggerInit
    /\ promptTemplates \in {<<>>, <<TemplateRow(TRUE, 70)>>}
    /\ PromptInit
    /\ tasks = <<>>
    /\ clock = 0
    /\ UploadInit
    /\ exported = Null
    /\ webhook \in WebhookModes
    /\ StorageInit

\* triggerCaptioning calls one after the other.
NextWebhook == \E t \in Triggers : Alone(t) /\ TriggerStep(t)

SpecWebhook == InitWebhook /\ [][NextWebhook]_vars

\* triggerCaptioning calls whose statements interleave.
NextRace == \E t \in Triggers : TriggerStep(t)

SpecRace == InitTrigger /\ [][NextRace]_vars

\* Assets of dataset 1 in any upload status, none of them captioned.
InitPipeline ==
    /\ apiKey = Some("sk")
    /\ mediaAssets \in
          [AssetIds -> UNION { { UploadedAsset(a, 1),
                                 NewAssetRow(1, <<"a">>, 0,
                                             buildStorageKey(1, <<"a">>, 0 - a), 0 - a),
                                 FinalizedRow(UploadedAsset(a, 1),
                                              [FinalizeDefaults EXCEPT
                                                  !.status = "failed"]) } :
                               a \in AssetIds }]
    /\ \A a \in AssetIds : mediaAssets[a].keyedAt = 0 - a
    /\ captions = <<>>
    /\ captionSeq = 0
    /\ PoolInit
    /\ ReviewInit
    /\ TriggerInit
    /\ promptTemplates = <<>>
    /\ PromptInit
    /\ tasks = <<>>
    /\ clock = 0
    /\ UploadInit
    /\ exported = Null
    /\ SysInit

\* A triggerCaptioning call and a processQueue request.
NextPipeline ==
    \/ TriggerStep("t1")
    \/ PoolStep("p1")

SpecPipeline == InitPipeline /\ [][NextPipeline]_vars

\* getStorageConfig calls while the environment changes.
NextStorage ==
    \/ GetStorageConfig
    \/ \E e \in EnvStates : SetEnv(e)

SpecStorage == Init /\ [][NextStorage]_vars

\* The temperatures a prompt template can store, the ends of 0..100 among
\* them.
Temperatures == {0, 1, 70, 100}

\* One prompt template, and queued captions that are linked to it or to none.
InitTemperature ==
    /\ apiKey = Some("sk")
    /\ mediaAssets = [a \in CaptionIds |-> UploadedAsset(a, 1)]
    /\ captions \in [CaptionIds -> UNION { { ProcessingRow(c),
                                              [ProcessingRow(c) EXCEPT
                                                  !.promptTemplateId = Some(1)] } :
                                            c \in CaptionIds }]
    /\ \A c \in CaptionIds : captions[c].mediaAssetId = c
    /\ captionSeq = NumCaptions
    /\ PoolInit
    /\ ReviewInit
    /\ TriggerInit
    /\ promptTemplates \in { <<TemplateRow(TRUE, t)>> : t \in Temperatures }
    /\ PromptInit
    /\ tasks = <<>>
    /\ clock = 0
    /\ UploadInit
    /\ exported = Null
    /\ SysInit

\* One processQueue request over captions with a prompt template.
NextTemperature == PoolStep("p1")

SpecTemperature == InitTemperature /\ [][NextTemperature]_vars

\* finalizeUpload's input with the optional fields given or omitted; a size
\* of 0 and an empty checksum are given values.
FinalizePatches ==
    [status : MediaStatus, size : {Null, Some(0)}, width : {Null}, height : {Null},
     checksum : {Null, Some(<<>>)}]

\* Assets as requestUpload created them, of 5 bytes each.
InitFinalize ==
    /\ apiKey = Some("sk")
    /\ mediaAssets = [a \in AssetIds |->
                         NewAssetRow(1, <<"a">>, 5, buildStorageKey(1, <<"a">>, 0 - a),
                                     0 - a)]
    /\ captions = <<>>
    /\ captionSeq = 0
    /\ PoolInit
    /\ ReviewInit
    /\ TriggerInit
    /\ promptTemplates = <<>>
    /\ PromptInit
    /\ tasks = <<>>
    /\ clock = 0
    /\ UploadInit
    /\ exported = Null
    /\ SysInit

\* finalizeUpload calls, also for an asset that does not exist.
NextFinalize ==
    \E assetId \in 1..(NumAssets + 1), in \in FinalizePatches : FinalizeUpload(assetId, in)

SpecFinalize == InitFinalize /\ [][NextFinalize]_vars

(***************************************************************************)
(* Properties                                                              *)
(***************************************************************************)

\* Jobs of invocation i that were dequeued and have pushed no result yet.
InFlight(i) == Len(jobs[i]) - Len(queue[i]) - Len(results[i])

JobIds(i) == { jobs[i][k].captionId : k \in DOMAIN jobs[i] }

ResultsFor(i, c) == { n \in DOMAIN results[i] : results[i][n].captionId = c }

\* C1: in generateCaptionsBatch(jobs, concurrency) the number of jobs that
\* were dequeued and have not pushed their result yet never exceeds
\* `concurrency`.
C1_InFlightAtMostConcurrency ==
    \A i \in Invocations :
        pc[i] # "idle" => InFlight(i) >= 0 /\ InFlight(i) <= concurrency[i]

\* C1 witness: the pool is full while a job still waits in the queue.
C1_Witness ==
    \E i \in Invocations :
        /\ pc[i] = "pool"
        /\ InFlight(i) = concurrency[i]
        /\ Len(queue[i]) > 0

\* C2: when generateCaptionsBatch has returned, its results hold exactly
\* one entry per input job, matched by captionId.
C2_OneResultPerJob ==
    \A i \in Invocations :
        pc[i] \in {"write", "done"} =>
            /\ Len(results[i]) = Len(jobs[i])
            /\ \A c \in JobIds(i) : Cardinality(ResultsFor(i, c)) = 1

\* C2 witness: two jobs, one succeeded and one failed, and the job dequeued
\* second pushed its result first.
C2_Witness ==
    \E i \in Invocations :
        /\ pc[i] = "write"
        /\ Len(jobs[i]) = 2
        /\ results[i][1].captionId = jobs[i][2].captionId
        /\ results[i][1].success
        /\ ~results[i][2].success

\* C3: no two workers ever write the same caption row, also across
\* overlapping invocations of processPendingCaptions: a caption is picked up
\* by the jobs of at most one invocation.
C3_CaptionPickedUpOnce ==
    \A c \in CaptionIds :
        Cardinality({ i \in Invocations : c \in JobIds(i) }) <= 1

\* The for loop of invocation i performs its next update in this step.
WritesNow(i) == pc[i] = "write" /\ written'[i] = written[i] + 1

\* C4: the worker writes `completed` or `rejected` only to a caption that is
\* in `processing` at the moment of the write, so that a reviewer action
\* between the select and the write is not overwritten (stated for runs with
\* the API key configured).
C4_WorkerWritesOnlyProcessing ==
    [][\A i \in Invocations :
          (WritesNow(i) /\ ~IsNull(apiKey)) =>
              LET c == results[i][written[i] + 1].captionId
              IN  c \in DOMAIN captions => captions[c].status = "processing"]_vars

\* The result the worker must push for a call that ended as `o`.
ExpectedResult(o) ==
    IF o.out.threw
    THEN [captionId |-> o.captionId, success |-> FALSE, caption |-> Null,
          model |-> Null, tokensUsed |-> Null, confidence |-> Null,
          error |-> Some(o.out.message)]
    ELSE [captionId |-> o.captionId, success |-> TRUE,
          caption |-> Some(o.out.caption), model |-> Some(o.out.model),
          tokensUsed |-> Some(o.out.tokensUsed),
          confidence |-> Some(o.out.confidence), error |-> Null]

\* C5: a generateCaption call that throws yields a result with success =
\* false and the error message for that job only; every other job keeps its
\* own result; no worker stops while jobs are queued, and every job has its
\* result when the pool returns.
C5_FailureIsolation ==
    \A i \in Invocations :
        /\ Len(results[i]) = Len(settled[i])
        /\ \A n \in DOMAIN settled[i] : results[i][n] = ExpectedResult(settled[i][n])
        /\ Len(queue[i]) > 0 => \A w \in DOMAIN workers[i] : ~IsNull(workers[i][w])
        /\ pc[i] \in {"write", "done"} =>
              \A c \in JobIds(i) : ResultsFor(i, c) # {}

\* C5 witness: a pool of one worker whose first job threw and whose second
\* job then succeeded.
C5_Witness ==
    \E i \in Invocations :
        /\ pc[i] = "write"
        /\ concurrency[i] = 1
        /\ Len(settled[i]) = 2
        /\ settled[i][1].out.threw
        /\ results[i][1].error = Some("fetch failed")
        /\ results[i][2].success

\* C6: every job whose pool result has success = true leaves its caption
\* `completed` with aiCaption = finalCaption = the returned text, model,
\* confidence and tokensUsed stored and generatedAt set, and is counted in
\* `succeeded`.
C6_SuccessCompletesCaption ==
    \A i \in Invocations :
        pc[i] = "done" =>
            /\ \A n \in DOMAIN results[i] :
                  results[i][n].success =>
                      LET row == captions[results[i][n].captionId]
                      IN  /\ row.status = "completed"
                          /\ row.aiCaption = results[i][n].caption
                          /\ row.finalCaption = results[i][n].caption
                          /\ row.model = results[i][n].model
                          /\ row.confidence = results[i][n].confidence
                          /\ row.tokensUsed = results[i][n].tokensUsed
                          /\ ~IsNull(row.generatedAt)
            /\ Val(ret[i]).succeeded =
                  Cardinality({ n \in DOMAIN results[i] : results[i][n].success })

\* C7: every job whose vision call failed leaves its caption `rejected` with
\* a non-empty rejectionReason, the error message or the generic fallback;
\* the batch returns its result, and the errors list has an entry for that
\* caption.
C7_FailureRejectsCaption ==
    \A i \in Invocations :
        pc[i] = "done" =>
            /\ ~IsNull(ret[i])
            /\ \A n \in DOMAIN settled[i] :
                  settled[i][n].out.threw =>
                      LET c   == settled[i][n].captionId
                          msg == settled[i][n].out.message
                      IN  /\ captions[c].status = "rejected"
                          /\ ~IsNull(captions[c].rejectionReason)
                          /\ Val(captions[c].rejectionReason) # ""
                          /\ Val(captions[c].rejectionReason) =
                                IF msg # "" THEN msg ELSE "Caption generation failed"
                          /\ \E e \in DOMAIN Val(ret[i]).errors :
                                Val(ret[i]).errors[e].captionId = c

\* C7 witness: a batch has returned after an upstream non-2xx answer for one
\* job and an error without message for the other.
C7_Witness ==
    \E i \in Invocations :
        /\ pc[i] = "done"
        /\ \E n \in DOMAIN settled[i] :
              /\ settled[i][n].out.threw
              /\ settled[i][n].out.message = "OpenAI API error: 500 - upstream"
        /\ \E n \in DOMAIN settled[i] :
              /\ settled[i][n].out.threw
              /\ settled[i][n].out.message = ""

\* C8: the returned ProcessResult has processed = succeeded + failed, one
\* errors entry per failure with pairwise distinct captionIds, processed <=
\* limit, and processed = the number of rows selected for the batch.
C8_ResultCounts ==
    \A i \in Invocations :
        ~IsNull(ret[i]) =>
            LET r == Val(ret[i])
            IN  /\ r.processed = r.succeeded + r.failed
                /\ Len(r.errors) = r.failed
                /\ \A a, b \in DOMAIN r.errors :
                      a # b => r.errors[a].captionId # r.errors[b].captionId
                /\ r.processed <= limit[i]
                /\ r.processed = Len(pendingCaptions[i])

\* C8 witness: a batch of two returned with one success and one failure.
C8_Witness ==
    \E i \in Invocations :
        /\ ~IsNull(ret[i])
        /\ Val(ret[i]).processed = 2
        /\ Val(ret[i]).succeeded = 1
        /\ Val(ret[i]).failed = 1

\* C9: with the API key missing, no request is sent, the call does not
\* return a result for a non-empty batch, and no caption is rejected.
C9_MissingKeyIsHardError ==
    IsNull(apiKey) =>
        /\ fetchCalls = 0
        /\ \A i \in Invocations : ~IsNull(ret[i]) => Val(ret[i]).processed = 0
        /\ \A c \in DOMAIN captions : captions[c].status # "rejected"

\* The call of invocation i has returned a result for a non-empty batch.
Returned(i) == pc[i] = "done" /\ Len(pendingCaptions[i]) > 0

\* C10: processPendingCaptions returns only with the queue empty, every
\* dequeued job finished and its outcome written, so that no selected
\* caption is left in `processing`; and once the pool runs, the call
\* returns, given that every vision call settles.
C10_RunsToCompletion ==
    /\ [](\A i \in Invocations :
            Returned(i) =>
                /\ queue[i] = <<>>
                /\ \A w \in DOMAIN workers[i] : IsNull(workers[i][w])
                /\ InFlight(i) = 0
                /\ Len(results[i]) = Len(jobs[i])
                /\ written[i] = Len(results[i])
                /\ \A c \in JobIds(i) : captions[c].status \in {"completed", "rejected"})
    /\ \A i \in Invocations : (pc[i] = "pool") ~> (pc[i] = "done")

\* C10 witness: a call has returned after a pool of one worker drained a
\* queue of two jobs.
C10_Witness ==
    \E i \in Invocations :
        /\ Returned(i)
        /\ concurrency[i] = 1
        /\ Len(jobs[i]) = 2
        /\ written[i] = 2

\* The four columns a generation fills are all null.
GenerationCleared(row) ==
    /\ IsNull(row.aiCaption)
    /\ IsNull(row.confidence)
    /\ IsNull(row.tokensUsed)
    /\ IsNull(row.generatedAt)

\* Some processQueue request writes a result for caption c in this step.
WorkerWrites(c) ==
    \E i \in Invocations : WritesNow(i) /\ results[i][written[i] + 1].captionId = c

\* A reviewer request for procedure op is served in this step.
Serves(op) == reviewerOps' = reviewerOps + 1 /\ request'.op = op

\* C11: after regenerate(ids) every existing caption named in ids is in
\* `processing` with aiCaption, confidence, tokensUsed and generatedAt null,
\* whatever its status was, and the four columns of a caption stay null in
\* every step that is not a worker write for that caption.
C11_RegenerateClearsGeneration ==
    [][/\ Serves("regenerate") =>
             \A c \in request'.ids \cap DOMAIN captions :
                 /\ c \in DOMAIN captions'
                 /\ captions'[c].status = "processing"
                 /\ GenerationCleared(captions'[c])
       /\ \A c \in DOMAIN captions \cap DOMAIN captions' :
             (GenerationCleared(captions[c]) /\ ~WorkerWrites(c)) =>
                 GenerationCleared(captions'[c])]_vars

\* C11 witness: a caption the worker had completed was regenerated: it is in
\* `processing` with the four columns null while its final caption remains.
C11_Witness ==
    /\ request.op = "regenerate"
    /\ \E c \in request.ids \cap DOMAIN captions :
          /\ captions[c].status = "processing"
          /\ GenerationCleared(captions[c])
          /\ ~IsNull(captions[c].finalCaption)
          /\ ~IsNull(captions[c].model)

\* Call t executes its anti-join select, or its insert, in this step.
Selects(t) == trig[t].pc = "idle" /\ trig'[t].pc # "idle"
Inserts(t) == trig[t].pc = "insert" /\ trig'[t].pc = "publish"

\* Call u has returned and it named the whole dataset d.
CoveredBy(u, d) ==
    /\ trig[u].pc = "done"
    /\ trig[u].input.datasetId = d
    /\ trig[u].input.mediaAssetIds = {}

\* C12: triggerCaptioning calls run one after the other.  The insert of a
\* call creates exactly one `processing` caption for each asset of the
\* dataset (of those named by mediaAssetIds, when given) that has no caption
\* row, and changes no other row; the call answers with that count; and a
\* call that follows a returned call for the whole of the same dataset
\* creates nothing and answers queued = 0, whatever the status of the
\* captions by then.
C12_TriggerIdempotent ==
    [][\A t \in Triggers :
          /\ Inserts(t) =>
                LET missing == UncaptionedAssets(mediaAssets, captions, trig[t].input)
                    created == DOMAIN captions' \ DOMAIN captions
                IN  /\ \A a \in missing :
                          Cardinality({ c \in created : captions'[c].mediaAssetId = a }) = 1
                    /\ \A c \in created :
                          /\ captions'[c].mediaAssetId \in missing
                          /\ captions'[c].status = "processing"
                    /\ \A c \in DOMAIN captions :
                          c \in DOMAIN captions' /\ captions'[c] = captions[c]
          /\ (trig[t].pc = "publish" /\ trig'[t].pc = "done") =>
                Val(trig'[t].reply).queued = Cardinality(trig[t].assets)
          /\ (Selects(t) /\ \E u \in Triggers \ {t} :
                                CoveredBy(u, trig'[t].input.datasetId)) =>
                /\ trig'[t].pc = "done"
                /\ Val(trig'[t].reply).queued = 0
                /\ captions' = captions]_vars

\* C12 witness: a first call queued both assets of a dataset, a reviewer
\* approved one of the captions, and a second call for that dataset answered
\* queued = 0.
C12_Witness ==
    \E t \in Triggers, u \in Triggers :
        /\ t # u
        /\ trig[t].pc = "done" /\ trig[u].pc = "done"
        /\ trig[t].input.datasetId = trig[u].input.datasetId
        /\ trig[u].input.mediaAssetIds = {}
        /\ Val(trig[t].reply).queued = NumAssets
        /\ Val(trig[u].reply).queued = 0
        /\ \E c \in trig[t].inserted : captions[c].status = "approved"

SingleItemOps == {"approve", "reject", "update", "delete"}

\* C13: approve, reject, update and delete called with an id that matches no
\* caption row fail with NOT_FOUND and leave every caption row unchanged.
C13_SingleItemNotFound ==
    [][\A op \in SingleItemOps :
          (Serves(op) /\ request'.ids \cap DOMAIN captions = {}) =>
              /\ reply'.error = Some("NOT_FOUND")
              /\ captions' = captions]_vars

\* C13 witness: an update for an id without a row was answered NOT_FOUND
\* while a worker result for an existing caption had been written.
C13_Witness ==
    /\ request.op = "update"
    /\ request.ids \cap DOMAIN captions = {}
    /\ reply.error = Some("NOT_FOUND")
    /\ \E c \in DOMAIN captions : captions[c].status = "completed"

MultiIdOps == {"regenerate", "batchApprove", "batchReject"}

\* C14: regenerate, batchApprove and batchReject called with a list that
\* holds an id matching no caption report NOT_FOUND to the caller, and the
\* count they return equals the number of caption rows actually changed.
C14_MultiIdNotFoundReported ==
    [][\A op \in MultiIdOps :
          Serves(op) =>
              /\ ~(request'.ids \subseteq DOMAIN captions) =>
                     reply'.error = Some("NOT_FOUND")
              /\ ~IsNull(reply'.count) =>
                     Val(reply'.count) = Cardinality(request'.ids \cap DOMAIN captions)]_vars

\* C15: approve and batchApprove move every existing caption they name, from
\* any status, to `approved`, stamp approvedAt, and set approvedBy to the
\* approvedBy input when given and otherwise to the session user's email.
C15_ApproveStampsReviewer ==
    [][\A op \in {"approve", "batchApprove"} :
          Serves(op) =>
              \A c \in request'.ids \cap DOMAIN captions :
                  /\ captions'[c].status = "approved"
                  /\ ~IsNull(captions'[c].approvedAt)
                  /\ captions'[c].approvedBy =
                        IF IsNull(request'.arg) THEN Some(SessionEmail) ELSE request'.arg]_vars

\* C15 witness: a batch approve with an explicit approvedBy moved a caption
\* the worker had rejected to `approved`.
C15_Witness ==
    /\ request.op = "batchApprove"
    /\ request.arg = Some("lead")
    /\ \E c \in request.ids \cap DOMAIN captions :
          /\ captions[c].status = "approved"
          /\ captions[c].approvedBy = Some("lead")
          /\ ~IsNull(captions[c].rejectionReason)

\* finalCaption ?? manualCaption ?? aiCaption ?? ""
FirstNonNull(r) ==
    Val(OrElse(r.finalCaption, OrElse(r.manualCaption, OrElse(r.aiCaption, Some(<<>>)))))

\* C16: for every row exported as CSV or TXT the caption text emitted is the
\* first non-null value among finalCaption, manualCaption and aiCaption, or
\* the empty text when all three are null (in CSV with its quotes doubled);
\* a non-null finalCaption, even an empty one, is never replaced.
C16_ExportFirstNonNull ==
    (~IsNull(exported) /\ Val(exported).format \in {"csv", "txt"}) =>
        \A c \in DOMAIN Val(exported).data :
            Val(exported).texts[c] =
                IF Val(exported).format = "csv"
                THEN EscapeQuotes(FirstNonNull(Val(exported).data[c]))
                ELSE FirstNonNull(Val(exported).data[c])

\* C17: after any sequence of tasks.create and tasks.updateStatus calls a
\* task's completedAt is non-null if and only if its status is `succeeded`
\* or `failed`.
C17_CompletedAtIffFinished ==
    \A t \in DOMAIN tasks :
        ~IsNull(tasks[t].completedAt) <=> tasks[t].status \in {"succeeded", "failed"}

DefaultTemplates == { p \in DOMAIN promptTemplates : promptTemplates[p].isDefault }

\* C18: in every reachable state at most one prompt template has
\* isDefault = true, also when the statements of prompts.create, update and
\* setDefault calls interleave.
C18_AtMostOneDefault == Cardinality(DefaultTemplates) <= 1

\* C19: an asset is `pending_upload` when requestUpload creates it, and an
\* asset that is `uploaded` is not moved back to `pending_upload` by any
\* finalizeUpload call.
C19_StatusNeverBackward ==
    [][\A a \in DOMAIN mediaAssets' :
          IF a \in DOMAIN mediaAssets
          THEN mediaAssets[a].status = "uploaded" =>
                   mediaAssets'[a].status # "pending_upload"
          ELSE mediaAssets'[a].status = "pending_upload"]_vars

\* Every asset still has the key requestUpload built for it: no operation
\* has changed it.
KeysAsBuilt ==
    \A a \in DOMAIN mediaAssets :
        mediaAssets[a].storageKey =
            buildStorageKey(mediaAssets[a].datasetId, mediaAssets[a].originalName,
                            mediaAssets[a].keyedAt)

\* The storage keys of all assets are pairwise distinct.
KeysPairwiseDistinct ==
    \A a \in DOMAIN mediaAssets, b \in DOMAIN mediaAssets :
        a # b => mediaAssets[a].storageKey # mediaAssets[b].storageKey

\* Two assets share a storage key only if they were requested for the same
\* dataset, with file names that normalize to the same text, in the same
\* millisecond.
KeysDistinctAcrossTime ==
    \A a \in DOMAIN mediaAssets, b \in DOMAIN mediaAssets :
        (a # b /\ mediaAssets[a].storageKey = mediaAssets[b].storageKey) =>
            /\ mediaAssets[a].datasetId = mediaAssets[b].datasetId
            /\ NormalizedName(mediaAssets[a].originalName) =
                   NormalizedName(mediaAssets[b].originalName)
            /\ mediaAssets[a].keyedAt = mediaAssets[b].keyedAt

FinalizeKeeps(row) ==
    <<row.datasetId, row.originalName, row.storageKey, row.publicUrl, row.keyedAt>>

\* C21: finalizeUpload(assetId, in) on an existing asset sets status to the
\* input's and stamps uploadedAt and updatedAt; it writes each of size,
\* width, height and checksum when the input has it and keeps it otherwise;
\* it keeps datasetId, the name, storageKey and publicUrl, and every other
\* asset; with an assetId that matches no row it answers NOT_FOUND and
\* changes no asset.
C21_FinalizePartialUpdate ==
    [][\A assetId \in 1..(NumAssets + 1), in \in FinalizePatches :
          FinalizeUpload(assetId, in) =>
              IF assetId \in DOMAIN mediaAssets
              THEN LET old == mediaAssets[assetId]
                       new == mediaAssets'[assetId]
                   IN  /\ IsNull(reply'.error)
                       /\ DOMAIN mediaAssets' = DOMAIN mediaAssets
                       /\ new.status = in.status
                       /\ new.uploadedAt = Some(Now) /\ new.updatedAt = Some(Now)
                       /\ new.size = IF IsNull(in.size) THEN old.size ELSE Val(in.size)
                       /\ new.width = IF IsNull(in.width) THEN old.width ELSE in.width
                       /\ new.height = IF IsNull(in.height) THEN old.height ELSE in.height
                       /\ new.checksum = IF IsNull(in.checksum) THEN old.checksum
                                         ELSE in.checksum
                       /\ FinalizeKeeps(new) = FinalizeKeeps(old)
                       /\ \A b \in DOMAIN mediaAssets \ {assetId} :
                              mediaAssets'[b] = mediaAssets[b]
              ELSE /\ reply'.error = Some("NOT_FOUND")
                   /\ mediaAssets' = mediaAssets]_vars

\* C21 witness: an asset finalized with an empty checksum and no size, so
\* that the size requestUpload stored is still there, and a later call for an
\* asset that does not exist was answered NOT_FOUND.
C21_Witness ==
    /\ reply.error = Some("NOT_FOUND")
    /\ \E a \in DOMAIN mediaAssets :
          /\ mediaAssets[a].status = "uploaded"
          /\ mediaAssets[a].size = 5
          /\ mediaAssets[a].checksum = Some(<<>>)

\* C22: the temperature of every job processPendingCaptions builds, which is
\* the one the client puts in the request body, is t / 100 when the caption
\* is linked to a template that stores t, for every t in 0..100, and 70 / 100
\* only when no template is linked.
C22_TemperatureDividedBy100 ==
    \A i \in Invocations : \A k \in DOMAIN jobs[i] :
        LET job  == jobs[i][k]
            cap  == captions[job.captionId]
            sent == RequestTemperature(job)
        IN  IF IsNull(cap.promptTemplateId)
            THEN sent.num * 100 = 70 * sent.den
            ELSE sent.num * 100 =
                     promptTemplates[Val(cap.promptTemplateId)].temperature * sent.den

\* Every required setting is there: the four that have no fallback, and an
\* endpoint, which the region supplies when S3_ENDPOINT is not set.
SettingsPresent(e) ==
    /\ \A f \in {"accessKeyId", "secretAccessKey", "bucket", "region"} :
           ~IsNull(e[f]) /\ Val(e[f]) # <<>>
    /\ ~IsNull(EndpointSetting(e))

\* C23: a getStorageConfig call made with an empty cache reads the
\* environment: with a required setting missing it throws and leaves the
\* cache empty, with the settings present it succeeds with their values;
\* once the cache is filled no step changes it, whatever the environment
\* becomes, and every call returns the cached configuration.
C23_ConfigCachedOnSuccessOnly ==
    [][/\ (GetStorageConfig /\ IsNull(cachedConfig)) =>
             IF SettingsPresent(storageEnv)
             THEN /\ ~storageReply'.threw
                  /\ ~IsNull(storageReply'.config)
                  /\ Val(storageReply'.config).bucket = Val(storageEnv.bucket)
                  /\ Val(storageReply'.config).region = Val(storageEnv.region)
                  /\ cachedConfig' = storageReply'.config
             ELSE /\ storageReply'.threw
                  /\ IsNull(cachedConfig')
       /\ ~IsNull(cachedConfig) =>
             /\ cachedConfig' = cachedConfig
             /\ GetStorageConfig =>
                    ~storageReply'.threw /\ storageReply'.config = cachedConfig]_vars

\* C23 witness: the last call succeeded from the cache although the
\* environment has lost its settings since the first success.
C23_Witness ==
    /\ storageReply.called /\ ~storageReply.threw
    /\ ~IsNull(cachedConfig)
    /\ storageReply.config = cachedConfig
    /\ ~SettingsPresent(storageEnv)

\* C24: a triggerCaptioning call that has committed its insert returns its
\* result whatever the webhook endpoint does: unset, answering, failing, or
\* never answering.
C24_WebhookNeverBlocks ==
    \A t \in Triggers : trig[t].pc = "publish" => ENABLED TriggerReturn(t)

\* s is what remains of t after some of its first elements were taken.
IsSuffix(s, t) ==
    /\ Len(s) <= Len(t)
    /\ s = SubSeq(t, Len(t) - Len(s) + 1, Len(t))

\* C25: the queue of generateCaptionsBatch always holds the input jobs that
\* were not dequeued yet, in the order of the input list, so jobs are
\* dequeued in that order; while the pool runs a step only takes jobs from
\* the head of the queue and never puts one back.  The order of the results
\* is not constrained.
C25_QueueFifoPopOnly ==
    [][\A i \in Invocations :
          /\ IsSuffix(queue'[i], jobs'[i])
          /\ pc[i] = "pool" =>
                /\ jobs'[i] = jobs[i]
                /\ IsSuffix(queue'[i], queue[i])]_vars

\* C25 witness: two jobs dequeued in the order of the list by two workers;
\* the job dequeued second has pushed its result while the first is still in
\* flight.
C25_Witness ==
    \E i \in Invocations :
        /\ pc[i] = "pool"
        /\ Len(jobs[i]) = 2
        /\ queue[i] = <<>>
        /\ Len(results[i]) = 1
        /\ results[i][1].captionId = jobs[i][2].captionId
        /\ workers[i][1] = Some(jobs[i][1])
        /\ IsNull(workers[i][2])

\* The caption rows that triggerCaptioning calls have inserted for asset a.
TriggeredFor(a) ==
    { c \in UNION { trig[t].inserted : t \in Triggers } :
        c \in DOMAIN captions /\ captions[c].mediaAssetId = a }

\* C26: however the selects and inserts of two triggerCaptioning calls
\* interleave, every media asset has at most one caption row created by
\* triggerCaptioning.
C26_OneTriggeredCaptionPerAsset ==
    \A a \in DOMAIN mediaAssets : Cardinality(TriggeredFor(a)) <= 1

\* C27: in every reachable state a caption in `approved` has approvedAt and
\* approvedBy set, whichever of approve, batchApprove and update moved it
\* there.
C27_ApprovedHasReviewer ==
    \A c \in DOMAIN captions :
        captions[c].status = "approved" =>
            ~IsNull(captions[c].approvedAt) /\ ~IsNull(captions[c].approvedBy)

\* The jobs of invocation i that a worker has dequeued: their requests
\* carry the public URL of the caption's asset.
Dequeued(i) == { jobs[i][k] : k \in 1..(Len(jobs[i]) - Len(queue[i])) }

\* C28: triggerCaptioning creates captions only for assets whose status is
\* `uploaded`, so every job whose request processPendingCaptions sends is
\* for an asset that is `uploaded`, never `pending_upload` or `failed`.
C28_OnlyUploadedAssetsCaptioned ==
    /\ \A a \in DOMAIN mediaAssets :
           TriggeredFor(a) # {} => mediaAssets[a].status = "uploaded"
    /\ \A i \in Invocations : \A job \in Dequeued(i) :
           mediaAssets[captions[job.captionId].mediaAssetId].status = "uploaded"

\* C29: a setDefault call, or an update call with isDefault = true, whose id
\* matches no template answers NOT_FOUND and leaves the default template
\* as it was when the call began.
C29_DefaultKeptOnNotFound ==
    \A a \in PromptCallers :
        LET call == promptCalls[a]
        IN  (/\ call.pc = "idle"
             /\ ClearsFirst(call.op, call.isDefault)
             /\ call.op # "create"
             /\ call.error = Some("NOT_FOUND")) =>
                DefaultsOf(promptTemplates) = call.defaultsBefore

\* The captions invocation i selected.
Selected(i) == { pendingCaptions[i][k] : k \in DOMAIN pendingCaptions[i] }

\* C30: with processPendingCaptions invoked again and again, every vision
\* call settling and nothing adding work: a call that finds k captions in
\* `processing` with a public URL selects min(k, limit) of them; the only
\* rows a call changes are the ones it selected, each from `processing` to
\* `completed` or `rejected`, and at its return each of them is resolved;
\* and eventually no such caption is left in `processing`.
C30_QueueDrains ==
    /\ [][\A i \in Invocations :
             (pc[i] = "idle" /\ pc'[i] # "idle") =>
                 /\ Len(pendingCaptions'[i]) =
                        Min(Cardinality(Selectable(captions, mediaAssets)), limit'[i])
                 /\ Selected(i)' \subseteq Selectable(captions, mediaAssets)]_vars
    /\ [][\A c \in DOMAIN captions :
             captions'[c] # captions[c] =>
                 /\ c \in Selected("p1")
                 /\ captions[c].status = "processing"
                 /\ captions'[c].status \in {"completed", "rejected"}]_vars
    /\ [](\A i \in Invocations :
             Returned(i) =>
                 \A c \in Selected(i) : captions[c].status \in {"completed", "rejected"})
    /\ <>(Selectable(captions, mediaAssets) = {})

\* C30 witness: the second call has returned and the queue is drained:
\* both captions were in `processing`, the first call resolved one of them
\* under limit 1, and this call found and resolved the other.
C30_Witness ==
    /\ Returned("p1")
    /\ limit["p1"] = 1
    /\ Selectable(captions, mediaAssets) = {}
    /\ \A c \in CaptionIds : captions[c].status \in {"completed", "rejected"}
    /\ fetchCalls = NumCaptions
====
